---- MODULE Spec2Model ----
(***************************************************************************)
(* A model of backend/app.py of the yoga presentation generator: the      *)
(* /generate request handler, the content provider with its fallback, the *)
(* text-to-slide normalizer and the per-slide image lookup.               *)
(*                                                                         *)
(* Strings.  A Python str is modelled as a run-length encoded sequence of *)
(* code points: a Text is a sequence of runs [c |-> code point, n |->     *)
(* repetitions], kept canonical (no two adjacent runs share a code point),*)
(* so that two Texts are equal exactly when the strings are.  A code point*)
(* is written as a one-character string, or as "U+xxxx" for a non-ASCII   *)
(* one.  len, strip, upper, isupper, startswith, "in", split, join and    *)
(* slicing are computed on this encoding.  Prose whose wording no         *)
(* operation of the program inspects (the words of a bullet, of a title)  *)
(* is written with the filler letters "x" (lower case) and "X" (upper     *)
(* case), keeping its length, its case and its markers.                   *)
(***************************************************************************)
EXTENDS Naturals, Sequences, FiniteSets

VARIABLES
    pc,             \* position of the request in generate_presentation
    request,        \* the JSON body of the POST /generate request
    api_key_set,    \* whether UNSPLASH_API_KEY is a non-empty string
    asanas_name,    \* the subject handed to the content provider
    text_response,  \* what the text-generation call came back with
    content,        \* parse_structured_content: the raw text
    lines,          \* parse_structured_content: the lines still to scan
    current_slide,  \* parse_structured_content: the slide being built
    slides,         \* parse_structured_content: the finalized slides
    slide_contents, \* the 13 slide bodies the content provider returned
    presentation,   \* generate_presentation: the presentation being built
    response,       \* the HTTP response, once sent
    text_calls,     \* outbound text-generation calls issued so far
    image_calls,    \* outbound image-lookup calls issued so far, per slide
    image_faults,   \* image lookups that did not return a photo so far
    image_responses \* what each slide's image lookup came back with

vars == <<pc, request, api_key_set, asanas_name, text_response, content, lines,
          current_slide, slides, slide_contents, presentation,
          response, text_calls, image_calls, image_faults, image_responses>>

(***************************************************************************)
(* Program constants.                                                      *)
(***************************************************************************)
MaxChars == 500
TotalSlides == 13
MinBullets == 5
MaxBullets == 6
EllipsisLen == 3

(***************************************************************************)
(* Code points.                                                            *)
(***************************************************************************)
NL == "\n"
BulletChar == "U+2022"
Whitespace == {" ", "\t", "\r", "\n"}

\* Lower-case letters with their upper-case forms (str.upper).
CasePairs ==
    { <<"a", "A">>, <<"d", "D">>, <<"e", "E">>, <<"i", "I">>, <<"l", "L">>,
      <<"n", "N">>, <<"s", "S">>, <<"x", "X">> }
LowerChars == { p[1] : p \in CasePairs }
UpperChars == { p[2] : p \in CasePairs } \cup {"B", "G", "H", "M", "R", "T", "U"}

UpperOf(c) ==
    IF c \in LowerChars THEN (CHOOSE p \in CasePairs : p[1] = c)[2] ELSE c

(***************************************************************************)
(* Text: the operations of str the program uses.                           *)
(***************************************************************************)
Rep(c, n) == IF n > 0 THEN << [c |-> c, n |-> n] >> ELSE << >>

\* a + b
Cat(a, b) ==
    IF a = << >> THEN b
    ELSE IF b = << >> THEN a
    ELSE IF a[Len(a)].c = b[1].c
         THEN SubSeq(a, 1, Len(a) - 1)
              \o << [c |-> b[1].c, n |-> a[Len(a)].n + b[1].n] >>
              \o Tail(b)
         ELSE a \o b

\* the string whose code points are cs, in order
RECURSIVE Str(_)
Str(cs) == IF cs = << >> THEN << >> ELSE Cat(Rep(Head(cs), 1), Str(Tail(cs)))

\* len(t)
RECURSIVE TLen(_)
TLen(t) == IF t = << >> THEN 0 ELSE Head(t).n + TLen(Tail(t))

\* t[:k]
RECURSIVE Take(_, _)
Take(t, k) ==
    IF t = << >> \/ k <= 0 THEN << >>
    ELSE IF Head(t).n >= k THEN << [c |-> Head(t).c, n |-> k] >>
    ELSE << Head(t) >> \o Take(Tail(t), k - Head(t).n)

\* t.startswith(p)
HasPrefix(t, p) == TLen(t) >= TLen(p) /\ Take(t, TLen(p)) = p

\* needle in t, for a non-empty needle
Contains(t, needle) ==
    LET k == Len(needle)
    IN  \E i \in 1..Len(t) :
            /\ i + k - 1 <= Len(t)
            /\ t[i].c = needle[1].c
            /\ IF k = 1 THEN t[i].n >= needle[1].n
               ELSE /\ t[i].n >= needle[1].n
                    /\ \A j \in 2..(k - 1) : t[i + j - 1] = needle[j]
                    /\ t[i + k - 1].c = needle[k].c
                    /\ t[i + k - 1].n >= needle[k].n

\* t.strip()
RECURSIVE LStrip(_)
LStrip(t) ==
    IF t # << >> /\ Head(t).c \in Whitespace THEN LStrip(Tail(t)) ELSE t
RECURSIVE RStrip(_)
RStrip(t) ==
    IF t # << >> /\ t[Len(t)].c \in Whitespace
    THEN RStrip(SubSeq(t, 1, Len(t) - 1)) ELSE t
Strip(t) == RStrip(LStrip(t))

\* t.upper()
RECURSIVE Upper(_)
Upper(t) ==
    IF t = << >> THEN << >>
    ELSE Cat(Rep(UpperOf(Head(t).c), Head(t).n), Upper(Tail(t)))

\* t.isupper(): at least one cased code point, and no lower-case one
IsUpperText(t) ==
    /\ \E i \in 1..Len(t) : t[i].c \in UpperChars
    /\ \A i \in 1..Len(t) : t[i].c \notin LowerChars

\* t.split('\n'), by halving t: the last line of the left half and the first
\* line of the right half are one line
RECURSIVE SplitNL(_)
SplitNL(t) ==
    IF Len(t) = 0 THEN << << >> >>
    ELSE IF Len(t) = 1
    THEN IF t[1].c = NL THEN [j \in 1..(t[1].n + 1) |-> << >>] ELSE << t >>
    ELSE LET h == Len(t) \div 2
             l == SplitNL(SubSeq(t, 1, h))
             r == SplitNL(SubSeq(t, h + 1, Len(t)))
         IN  SubSeq(l, 1, Len(l) - 1) \o << l[Len(l)] \o r[1] >> \o Tail(r)

\* '\n'.join(ls), by halving ls
RECURSIVE JoinNL(_)
JoinNL(ls) ==
    IF Len(ls) = 0 THEN << >>
    ELSE IF Len(ls) = 1 THEN ls[1]
    ELSE LET h == Len(ls) \div 2
         IN  Cat(Cat(JoinNL(SubSeq(ls, 1, h)), Rep(NL, 1)),
                 JoinNL(SubSeq(ls, h + 1, Len(ls))))

(***************************************************************************)
(* The markers of the normalizer.                                          *)
(***************************************************************************)
SlideToken == Str(<<"S", "L", "I", "D", "E">>)
SubheadingToken ==
    Str(<<"S", "U", "B", "H", "E", "A", "D", "I", "N", "G", ":">>)
Bullet == Rep(BulletChar, 1)
Hyphen == Rep("-", 1)

\* the emoji of line 161, each as its code points
SubheadingEmoji ==
    << Str(<<"U+1F3AF">>), Str(<<"U+1F4DD">>), Str(<<"U+1F32C", "U+FE0F">>),
       Str(<<"U+1F4AA">>), Str(<<"U+1F9E0">>), Str(<<"U+1F31F">>),
       Str(<<"U+1F680">>), Str(<<"U+26A0", "U+FE0F">>), Str(<<"U+1F4C5">>),
       Str(<<"U+1F468", "U+200D", "U+1F3EB">>), Str(<<"U+1F4DA">>),
       Str(<<"U+1F4BC">>), Str(<<"U+1F389">>) >>

(***************************************************************************)
(* Fallback Content Bank (get_enhanced_fallback_content).  Each of the 13  *)
(* entries is a title line, a subheading line "<emoji> SUBHEADING: ..."   *)
(* and six bullet lines "<bullet> ...".  FallbackShape records, per entry, *)
(* the length of the title, the emoji of the subheading, the length of the *)
(* subheading line and the lengths of the six bullet lines, as counted in  *)
(* code points in the source; entry 1's title is "MASTERING " followed by  *)
(* the subject in upper case, so its title length counts only the prefix.  *)
(***************************************************************************)
FallbackShape ==
    << [title |-> 10, emoji |-> 1,  sub |-> 41, bullets |-> <<68, 59, 60, 64, 58, 63>>],
       [title |-> 21, emoji |-> 2,  sub |-> 48, bullets |-> <<58, 57, 58, 53, 50, 51>>],
       [title |-> 20, emoji |-> 3,  sub |-> 50, bullets |-> <<62, 60, 63, 56, 54, 57>>],
       [title |-> 17, emoji |-> 4,  sub |-> 44, bullets |-> <<54, 53, 51, 45, 51, 41>>],
       [title |-> 15, emoji |-> 5,  sub |-> 44, bullets |-> <<47, 51, 50, 42, 52, 46>>],
       [title |-> 17, emoji |-> 6,  sub |-> 44, bullets |-> <<55, 49, 51, 47, 48, 42>>],
       [title |-> 19, emoji |-> 7,  sub |-> 45, bullets |-> <<47, 50, 44, 44, 43, 47>>],
       [title |-> 18, emoji |-> 8,  sub |-> 41, bullets |-> <<54, 50, 57, 54, 44, 49>>],
       [title |-> 22, emoji |-> 9,  sub |-> 37, bullets |-> <<45, 41, 48, 40, 43, 48>>],
       [title |-> 20, emoji |-> 10, sub |-> 43, bullets |-> <<45, 50, 46, 50, 42, 37>>],
       [title |-> 25, emoji |-> 11, sub |-> 39, bullets |-> <<47, 42, 45, 43, 47, 53>>],
       [title |-> 19, emoji |-> 12, sub |-> 39, bullets |-> <<48, 50, 50, 41, 44, 48>>],
       [title |-> 23, emoji |-> 13, sub |-> 42, bullets |-> <<51, 49, 50, 44, 44, 41>>] >>

Space == Rep(" ", 1)

\* a bullet line of n code points: the bullet marker, a space, lower-case prose
BulletOfLen(n) == Cat(Bullet, Cat(Space, Rep("x", n - 2)))

\* "<emoji> SUBHEADING: <prose>", n code points in all
SubheadingOfLen(e, n) ==
    LET head == Cat(SubheadingEmoji[e], Cat(Space, Cat(SubheadingToken, Space)))
    IN  Cat(head, Rep("x", n - TLen(head)))

MasteringPrefix == Str(<<"M", "A", "S", "T", "E", "R", "I", "N", "G", " ">>)

FallbackTitle(i, name) ==
    IF i = 1 THEN Cat(MasteringPrefix, Upper(name))
    ELSE Rep("X", FallbackShape[i].title)

\* the lines of entry i below its title: they do not depend on the subject
FallbackBody ==
    [i \in 1..Len(FallbackShape) |->
        LET sh == FallbackShape[i]
        IN  JoinNL(<< SubheadingOfLen(sh.emoji, sh.sub) >>
                   \o [j \in 1..Len(sh.bullets) |-> BulletOfLen(sh.bullets[j])])]

\* mutant: the last bullet of the second entry names the subject
FallbackEntry_NameInBullet(i, name) ==
    Cat(Cat(Cat(FallbackTitle(i, name), Rep(NL, 1)), FallbackBody[i]),
        IF i = 2 THEN Cat(Space, name) ELSE << >>)

FallbackEntry(i, name) ==
    Cat(Cat(FallbackTitle(i, name), Rep(NL, 1)), FallbackBody[i])

get_enhanced_fallback_content(name) ==
    [i \in 1..Len(FallbackShape) |-> FallbackEntry(i, name)]

(***************************************************************************)
(* truncate_structured_content and format_slide_content.                   *)
(***************************************************************************)
\* mutant: a line that brings the text to the budget exactly is kept
RECURSIVE KeptLines_Inclusive(_, _, _)
KeptLines_Inclusive(ls, total_length, max_chars) ==
    IF ls = << >> THEN << >>
    ELSE IF total_length + TLen(Head(ls)) <= max_chars
         THEN << Head(ls) >>
              \o KeptLines_Inclusive(Tail(ls), total_length + TLen(Head(ls)) + 1,
                                     max_chars)
         ELSE << >>

\* the loop of lines 204-209: whole lines are kept while they fit
RECURSIVE KeptLines(_, _, _)
KeptLines(ls, total_length, max_chars) ==
    IF ls = << >> THEN << >>
    ELSE IF total_length + TLen(Head(ls)) < max_chars
         THEN << Head(ls) >>
              \o KeptLines(Tail(ls), total_length + TLen(Head(ls)) + 1, max_chars)
         ELSE << >>

Ellipsis == Rep(".", EllipsisLen)

\* mutant: the text is cut at the budget, wherever that falls
truncate_CutAtBudget(text, max_chars) ==
    IF TLen(text) > max_chars THEN Take(text, max_chars) ELSE text

truncate_structured_content(text, max_chars) ==
    IF TLen(text) > max_chars
    THEN LET result == JoinNL(KeptLines(SplitNL(text), 0, max_chars))
         IN  IF Strip(result) # << >> THEN result
             ELSE Cat(Take(text, max_chars - EllipsisLen), Ellipsis)
    ELSE text

\* "<bullet> Additional detailed point for comprehensive coverage"
FillerBullet == Cat(Bullet, Cat(Space, Cat(Rep("A", 1), Rep("x", 51))))

\* lines 187-188: at least 5 bullets
PadBullets(content_lines) ==
    content_lines
    \o [j \in 1..(MinBullets - Len(content_lines)) |-> FillerBullet]

\* mutant: the last 6 bullets are kept instead of the first 6
FirstBullets_Last(content_lines) ==
    SubSeq(content_lines,
           IF Len(content_lines) < MaxBullets THEN 1 ELSE Len(content_lines) - MaxBullets + 1,
           Len(content_lines))

\* line 191: content_lines[:6]
FirstBullets(content_lines) ==
    SubSeq(content_lines, 1,
           IF Len(content_lines) < MaxBullets THEN Len(content_lines) ELSE MaxBullets)

format_slide_content(slide_data) ==
    LET body == JoinNL(FirstBullets(PadBullets(slide_data.content)))
        full_content ==
            Cat(Cat(Cat(Cat(slide_data.title, Rep(NL, 1)), slide_data.subheading),
                    Rep(NL, 1)), body)
    IN  truncate_structured_content(full_content, MaxChars)

(***************************************************************************)
(* parse_structured_content: the classification of one stripped line.      *)
(***************************************************************************)
\* mutant: the SLIDE prefix is matched without regard to case
IsTitleLine_AnyCase(line) ==
    HasPrefix(Upper(line), SlideToken) \/ (IsUpperText(line) /\ TLen(line) > 10)

IsTitleLine(line) ==
    HasPrefix(line, SlideToken) \/ (IsUpperText(line) /\ TLen(line) > 10)

IsSubheadingLine(line) ==
    \/ Contains(line, SubheadingToken)
    \/ \E e \in 1..Len(SubheadingEmoji) : Contains(line, SubheadingEmoji[e])

IsBulletLine(line) == HasPrefix(line, Bullet) \/ HasPrefix(line, Hyphen)

EmptySlide == [title |-> << >>, subheading |-> << >>, content |-> << >>]
\* mutant: a title line that begins with a bullet marker is kept as a bullet too
NewSlide_AsBullet(line) ==
    [title |-> line, subheading |-> << >>,
     content |-> IF HasPrefix(line, Bullet) \/ HasPrefix(line, Hyphen)
                 THEN << line >> ELSE << >>]

NewSlide(line) == [title |-> line, subheading |-> << >>, content |-> << >>]

\* mutant: the slide under construction is finalized with or without a title
WithFinalized_Untitled(done, slide) == Append(done, format_slide_content(slide))

\* lines 157-158 and 170-171: a slide under construction is finalized only
\* when it has a title
WithFinalized(done, slide) ==
    IF slide.title # << >> THEN Append(done, format_slide_content(slide)) ELSE done

\* mutant: the padding index is off by one
RECURSIVE PadSlides_Shifted(_, _)
PadSlides_Shifted(done, enhanced_slides) ==
    IF Len(done) < TotalSlides
    THEN PadSlides_Shifted(
             Append(done, enhanced_slides[((Len(done) + 1) % Len(enhanced_slides)) + 1]),
             enhanced_slides)
    ELSE done

\* lines 174-176: pad from the fallback bank
RECURSIVE PadSlides(_, _)
PadSlides(done, enhanced_slides) ==
    IF Len(done) < TotalSlides
    THEN PadSlides(Append(done, enhanced_slides[(Len(done) % Len(enhanced_slides)) + 1]),
                   enhanced_slides)
    ELSE done

\* mutant: the list is returned uncut
FirstSlides_Uncut(done) == done

\* line 178: slides[:13]
FirstSlides(done) ==
    SubSeq(done, 1, IF Len(done) < TotalSlides THEN Len(done) ELSE TotalSlides)

(***************************************************************************)
(* Bounds of the model, and the inputs drawn within them.                  *)
(***************************************************************************)
MaxFreeLines == 3      \* lines of a raw text drawn freely from LineCatalog
MaxTitles == 14        \* titled slides of a generated deck
MaxDeckBullets == 7    \* bullets per slide of a generated deck
ShortLen == 20         \* prose length of a short line
LongLen == 100         \* prose length of a long line
LongNameLen == 80      \* length of a long subject name
MaxImageFaults == 1    \* image lookups of one request that return no photo
MaxGenTitles == 2      \* titled slides of a text the generation service returns

\* "SLIDE XX...": the j-th title of a deck carries j letters
TitleLine(j) == Cat(SlideToken, Cat(Space, Rep("X", j)))

\* "<bullet> xx...": the m-th bullet of a slide is m letters longer than base
BulletLine(m, base) == Cat(Bullet, Cat(Space, Rep("x", base + m)))

SubheadingLine == SubheadingOfLen(1, 14 + ShortLen)

\* raw lines, before strip()
LineCatalog ==
    << TitleLine(1),                                                  \* SLIDE X
       Cat(Rep(" ", 2), Cat(TitleLine(2), Space)),                    \* padded with blanks
       Str(<<"S", "l", "i", "d", "e", " ", "2">>),                    \* Slide 2
       Str(<<"s", "l", "i", "d", "e", " ", "3">>),                    \* slide 3
       Rep("X", 11),                                                  \* upper case, 11 long
       Rep("X", 10),                                                  \* upper case, 10 long
       Rep("1", 11),                                                  \* no cased letter
       SubheadingLine,                                                \* emoji SUBHEADING: prose
       BulletLine(0, ShortLen),                                       \* bullet
       Cat(Hyphen, Cat(Space, Rep("x", ShortLen))),                   \* hyphen bullet
       Cat(Hyphen, Cat(Space, Rep("X", ShortLen))),                   \* upper-case hyphen bullet
       Cat(SubheadingToken, Cat(Space, Rep("X", 2))),                 \* upper-case subheading
       Rep("x", ShortLen),                                            \* prose
       << >>,                                                         \* blank
       Cat(SlideToken, Rep("X", MaxChars)) >>                         \* title over the budget

FreeTexts ==
    UNION { { JoinNL([j \in 1..n |-> LineCatalog[f[j]]]) :
                f \in [1..n -> 1..Len(LineCatalog)] } : n \in 0..MaxFreeLines }

\* one titled slide of a deck: title j, a subheading, and j bullets counted
\* modulo MaxDeckBullets + 1, so that a deck holds slides of every bullet count
DeckSlide(j, base) ==
    << TitleLine(j), SubheadingLine >>
    \o [m \in 1..(j % (MaxDeckBullets + 1)) |-> BulletLine(m, base)]

RECURSIVE DeckLines(_, _)
DeckLines(k, base) ==
    IF k = 0 THEN << >> ELSE DeckLines(k - 1, base) \o DeckSlide(k, base)

DeckTexts ==
    { JoinNL(DeckLines(k, base)) : k \in 0..MaxTitles, base \in {ShortLen, LongLen} }

ShortName == Str(<<"T", "a", "d", "a", "s", "a", "n", "a">>)
LongName == Rep("x", LongNameLen)
SecondName == Str(<<"D", "a", "n", "d", "a", "s", "a", "n", "a">>)
\* a submitted name that holds a line break
BrokenName == Str(<<"T", "a", "d", "a", NL, "s", "a", "n", "a">>)

\* a title of n code points around the budget, and one bullet
BoundaryTexts ==
    { JoinNL(<< Cat(SlideToken, Rep("X", n - 5)), BulletLine(0, ShortLen) >>) :
        n \in (MaxChars - 2)..(MaxChars + 1) }
    \cup
    \* title, empty subheading and first bullet together around the budget
    { JoinNL(<< Cat(SlideToken, Rep("X", n - (ShortLen + 4) - 5)),
                BulletLine(0, ShortLen) >>) :
        n \in (MaxChars - 1)..(MaxChars + 1) }

NormInputs ==
    { [content |-> c, name |-> ShortName] : c \in FreeTexts \cup BoundaryTexts }
    \cup { [content |-> c, name |-> n] : c \in DeckTexts,
                                      n \in {ShortName, LongName, BrokenName} }

(***************************************************************************)
(* State outside a request's own variables.                                *)
(***************************************************************************)
NoRequest ==
    [has_asanas |-> FALSE, asanas |-> << >>, has_student_name |-> FALSE,
     student_name |-> << >>, include_images |-> "absent"]
NoTextResponse ==
    [issued |-> FALSE, raised |-> FALSE, status_code |-> 0, json_ok |-> FALSE,
     has_choices |-> FALSE, content_is_str |-> FALSE, content |-> << >>]
NoPresentation ==
    [title |-> << >>, asanas |-> << >>, student_name |-> << >>, slides |-> << >>,
     status |-> ""]
NoResponse == [code |-> 0, status |-> "", asanas |-> << >>, slides |-> << >>]
NoImageCalls == [i \in 0..(TotalSlides - 1) |-> 0]
NoImageResponses == [i \in 0..(TotalSlides - 1) |-> "none"]

(***************************************************************************)
(* parse_structured_content, one loop iteration per step.                  *)
(***************************************************************************)
\* lines 152-167: one line of the scan
ScanLine ==
    /\ pc = "scan"
    /\ lines # << >>
    /\ LET line == Strip(Head(lines))
       IN  IF IsTitleLine(line)
           THEN /\ slides' = WithFinalized(slides, current_slide)
                /\ current_slide' = NewSlide(line)
           ELSE IF IsSubheadingLine(line)
           THEN /\ current_slide' = [current_slide EXCEPT !.subheading = line]
                /\ UNCHANGED slides
           ELSE IF IsBulletLine(line)
           THEN /\ current_slide' =
                       [current_slide EXCEPT !.content = Append(@, line)]
                /\ UNCHANGED slides
           ELSE UNCHANGED <<current_slide, slides>>
    /\ lines' = Tail(lines)
    /\ UNCHANGED <<pc, request, api_key_set, asanas_name, text_response, content,
                   slide_contents, presentation, response, text_calls,
                   image_calls, image_faults,
                   image_responses>>

\* lines 169-178: the last slide, the padding, the first 13
ParseReturn ==
    /\ pc = "scan"
    /\ lines = << >>
    /\ slides' = PadSlides(WithFinalized(slides, current_slide),
                           get_enhanced_fallback_content(asanas_name))
    /\ slide_contents' = FirstSlides(slides')
    /\ pc' = "assemble"
    /\ UNCHANGED <<request, api_key_set, asanas_name, text_response, content,
                   lines, current_slide, presentation, response,
                   text_calls, image_calls, image_faults,
                   image_responses>>

\* the normalizer alone, on every input of NormInputs
NormInit ==
    /\ \E inp \in NormInputs :
          /\ content = inp.content
          /\ asanas_name = inp.name
          /\ lines = SplitNL(inp.content)
    /\ pc = "scan"
    /\ current_slide = EmptySlide
    /\ slides = << >>
    /\ slide_contents = << >>
    /\ request = NoRequest
    /\ api_key_set = TRUE
    /\ text_response = NoTextResponse
    /\ presentation = NoPresentation
    /\ response = NoResponse
    /\ text_calls = 0
    /\ image_calls = NoImageCalls
    /\ image_faults = 0
    /\ image_responses = NoImageResponses

NormNext == ScanLine \/ ParseReturn

SpecNorm == NormInit /\ [][NormNext]_vars

(***************************************************************************)
(* The requests, and what the two outside services may answer.             *)
(***************************************************************************)
\* bodies of POST /generate: asanas absent, empty, one pose, two poses;
\* student_name absent or a name between blanks; include_images absent or set
Requests ==
    { [has_asanas |-> ha, asanas |-> a, has_student_name |-> hs,
       student_name |-> IF hs THEN Cat(Space, Cat(Rep("x", 3), Space)) ELSE << >>,
       include_images |-> inc] :
        ha \in {TRUE}, a \in {<< >>, <<ShortName>>, <<SecondName, ShortName>>},
        hs \in BOOLEAN, inc \in {"absent", "true", "false"} }
    \cup
    { [has_asanas |-> FALSE, asanas |-> << >>, has_student_name |-> hs,
       student_name |-> IF hs THEN Cat(Space, Cat(Rep("x", 3), Space)) ELSE << >>,
       include_images |-> inc] :
        hs \in BOOLEAN, inc \in {"absent", "true", "false"} }

GenTexts == { JoinNL(DeckLines(k, LongLen)) : k \in 0..MaxGenTitles }

\* requests.post of lines 127-132 and what lines 134-137 read of its result:
\* the call raised (a timeout, a connection error); or it returned status_code
\* with a body that is JSON or not, that holds choices[0].message.content or
\* not, whose content is a str or not
TextResponses ==
    { [issued |-> TRUE, raised |-> FALSE, status_code |-> 200, json_ok |-> TRUE,
       has_choices |-> TRUE, content_is_str |-> TRUE, content |-> c] : c \in GenTexts }
    \cup
    { [issued |-> TRUE, raised |-> TRUE, status_code |-> 0, json_ok |-> FALSE,
       has_choices |-> FALSE, content_is_str |-> FALSE, content |-> << >>],
      [issued |-> TRUE, raised |-> FALSE, status_code |-> 429, json_ok |-> TRUE,
       has_choices |-> TRUE, content_is_str |-> TRUE,
       content |-> JoinNL(DeckLines(1, ShortLen))],
      [issued |-> TRUE, raised |-> FALSE, status_code |-> 200, json_ok |-> FALSE,
       has_choices |-> FALSE, content_is_str |-> FALSE, content |-> << >>],
      [issued |-> TRUE, raised |-> FALSE, status_code |-> 200, json_ok |-> TRUE,
       has_choices |-> FALSE, content_is_str |-> FALSE, content |-> << >>],
      [issued |-> TRUE, raised |-> FALSE, status_code |-> 200, json_ok |-> TRUE,
       has_choices |-> TRUE, content_is_str |-> FALSE, content |-> << >>] }

\* requests.get of line 270 and what lines 272-282 read of its result
ImageOutcomes == {"photo", "no_results", "http_error", "raises"}

(***************************************************************************)
(* get_comprehensive_yoga_content.                                         *)
(***************************************************************************)
\* mutant: the status code is not looked at
ProviderSucceeds_AnyStatus(r) ==
    /\ ~r.raised
    /\ r.json_ok
    /\ r.has_choices
    /\ r.content_is_str

\* lines 134-137: the text reaches parse_structured_content only when nothing
\* raised on the way: status 200, a JSON body, choices[0].message.content
\* present, and a str (content.split raises on anything else)
ProviderSucceeds(r) ==
    /\ ~r.raised
    /\ r.status_code = 200
    /\ r.json_ok
    /\ r.has_choices
    /\ r.content_is_str

\* lines 141-143: the except clause
ProviderFallback(name) == get_enhanced_fallback_content(name)

(***************************************************************************)
(* get_canva_style_image.                                                  *)
(***************************************************************************)
NoImage == [source |-> "none", index |-> 0]

\* lines 272-282: a photo of the answer, when it is a 200 with results
\* (per_page results are asked for; the photo is results[slide_number % len])
UnsplashImage(slide_number) == [source |-> "unsplash", index |-> slide_number % 15]

\* lines 285-306: the curated list
CuratedImage(slide_number) ==
    [source |-> "curated", index |-> slide_number % TotalSlides]

\* mutant: a lookup that returned no photo is tried once more
LookupCalls_Retry(key_set, outcome) ==
    IF key_set THEN (IF outcome = "photo" THEN 1 ELSE 2) ELSE 0

\* the outbound calls one lookup issues: one when the key is set (lines
\* 261-270), whatever comes back
LookupCalls(key_set, outcome) == IF key_set THEN 1 ELSE 0

\* what requests.get of line 270 came back with; "none" when the key is not
\* set and no call is made
LookupResponse(key_set, outcome) == IF key_set THEN outcome ELSE "none"

\* mutant: an exception of the lookup leaves the function
get_canva_style_image_Uncaught(slide_number, key_set, outcome) ==
    IF key_set /\ outcome = "raises" THEN [escapes |-> TRUE, image |-> NoImage]
    ELSE IF key_set /\ outcome = "photo"
    THEN [escapes |-> FALSE, image |-> UnsplashImage(slide_number)]
    ELSE [escapes |-> FALSE, image |-> CuratedImage(slide_number)]

\* mutant: every lookup that brought no photo gives no image
get_canva_style_image_NullOnStatus(slide_number, key_set, outcome) ==
    IF key_set /\ outcome = "photo"
    THEN [escapes |-> FALSE, image |-> UnsplashImage(slide_number)]
    ELSE IF key_set THEN [escapes |-> FALSE, image |-> NoImage]
    ELSE [escapes |-> FALSE, image |-> CuratedImage(slide_number)]

\* the value of get_canva_style_image(main_asana, slide_number); escapes says
\* whether an exception leaves the function (line 308 catches every one)
get_canva_style_image(slide_number, key_set, outcome) ==
    IF key_set /\ outcome = "raises" THEN [escapes |-> FALSE, image |-> NoImage]
    ELSE IF key_set /\ outcome = "photo"
    THEN [escapes |-> FALSE, image |-> UnsplashImage(slide_number)]
    ELSE [escapes |-> FALSE, image |-> CuratedImage(slide_number)]

(***************************************************************************)
(* generate_presentation.                                                  *)
(***************************************************************************)
\* data.get('asanas', [])
AsanasOf(req) == IF req.has_asanas THEN req.asanas ELSE << >>

\* data.get('student_name', '').strip()
StudentNameOf(req) == Strip(IF req.has_student_name THEN req.student_name ELSE << >>)

\* data.get('include_images', True)
IncludeImages(req) == req.include_images # "false"

\* mutant: only a missing asanas key is refused
IsEmptySelection_AbsentOnly(req) == ~req.has_asanas

\* line 572: not asanas
IsEmptySelection(req) == Len(AsanasOf(req)) = 0

ErrorResponse(code) ==
    [code |-> code, status |-> "error", asanas |-> << >>, slides |-> << >>]

GuideSuffix == Cat(Str(<<" ", "-", " ">>), Rep("x", 24))

\* lines 566-575: read the body, refuse an empty selection, take the first pose
Validate ==
    /\ pc = "validate"
    /\ IF IsEmptySelection(request)
       THEN /\ response' = ErrorResponse(400)
            /\ pc' = "done"
            /\ UNCHANGED asanas_name
       ELSE IF Len(AsanasOf(request)) = 0           \* asanas[0] raises
       THEN /\ response' = ErrorResponse(500)
            /\ pc' = "done"
            /\ UNCHANGED asanas_name
       ELSE /\ asanas_name' = AsanasOf(request)[1]
            /\ pc' = "provide"
            /\ UNCHANGED response
    /\ UNCHANGED <<request, api_key_set, text_response, content, lines,
                   current_slide, slides, slide_contents, presentation,
                   text_calls, image_calls, image_faults,
                   image_responses>>

\* lines 67-143 up to the call of parse_structured_content: one outbound
\* call; on any failure the fallback bank is returned
CallTextGeneration ==
    /\ pc = "provide"
    /\ \E r \in TextResponses :
          /\ text_response' = r
          /\ text_calls' = text_calls + 1
          /\ IF ProviderSucceeds(r)
             THEN /\ content' = r.content
                  /\ lines' = SplitNL(r.content)
                  /\ current_slide' = EmptySlide
                  /\ slides' = << >>
                  /\ pc' = "scan"
                  /\ UNCHANGED slide_contents
             ELSE /\ slide_contents' = ProviderFallback(asanas_name)
                  /\ pc' = "assemble"
                  /\ UNCHANGED <<content, lines, current_slide, slides>>
    /\ UNCHANGED <<request, api_key_set, asanas_name, presentation, response,
                   image_calls, image_faults,
                   image_responses>>

\* lines 580-589: the presentation, before its slides (id, generated_at and
\* message are written here and read nowhere)
Assemble ==
    /\ pc = "assemble"
    /\ presentation' =
          [title |-> Cat(asanas_name, GuideSuffix),
           asanas |-> << asanas_name >>,
           student_name |-> StudentNameOf(request),
           slides |-> << >>,
           status |-> "success"]
    /\ pc' = "slides"
    /\ UNCHANGED <<request, api_key_set, asanas_name, text_response, content,
                   lines, current_slide, slides, slide_contents, response,
                   text_calls, image_calls, image_faults,
                   image_responses>>

\* lines 592-602: one iteration of the loop over slide_contents
AddSlide ==
    /\ pc = "slides"
    /\ Len(presentation.slides) < Len(slide_contents)
    /\ LET i == Len(presentation.slides)
           body == slide_contents[i + 1]
       IN  IF IncludeImages(request)
           THEN \E outcome \in ImageOutcomes :
                  LET got == get_canva_style_image(i, api_key_set, outcome)
                      fault == api_key_set /\ outcome # "photo"
                  IN  /\ api_key_set \/ outcome = "photo"
                      /\ fault => image_faults < MaxImageFaults
                      /\ image_faults' = image_faults + (IF fault THEN 1 ELSE 0)
                      /\ image_responses' =
                            [image_responses EXCEPT ![i] = LookupResponse(api_key_set, outcome)]
                      /\ image_calls' =
                            [image_calls EXCEPT ![i] = @ + LookupCalls(api_key_set, outcome)]
                      /\ IF got.escapes
                         THEN /\ response' = ErrorResponse(500)
                              /\ pc' = "done"
                              /\ UNCHANGED presentation
                         ELSE /\ presentation' =
                                    [presentation EXCEPT !.slides =
                                        Append(@, [content |-> body, image |-> got.image])]
                              /\ UNCHANGED <<pc, response>>
           ELSE /\ presentation' =
                      [presentation EXCEPT !.slides =
                          Append(@, [content |-> body, image |-> NoImage])]
                /\ UNCHANGED <<pc, response, image_calls, image_faults,
                   image_responses>>
    /\ UNCHANGED <<request, api_key_set, asanas_name, text_response, content,
                   lines, current_slide, slides, slide_contents, text_calls>>

\* line 604: jsonify(presentation)
Respond ==
    /\ pc = "slides"
    /\ Len(presentation.slides) = Len(slide_contents)
    /\ response' = [code |-> 200, status |-> presentation.status,
                    asanas |-> presentation.asanas, slides |-> presentation.slides]
    /\ pc' = "done"
    /\ UNCHANGED <<request, api_key_set, asanas_name, text_response, content,
                   lines, current_slide, slides, slide_contents, presentation,
                   text_calls, image_calls, image_faults,
                   image_responses>>

Init ==
    /\ pc = "validate"
    /\ request \in Requests
    /\ api_key_set \in BOOLEAN
    /\ asanas_name = << >>
    /\ text_response = NoTextResponse
    /\ content = << >>
    /\ lines = << >>
    /\ current_slide = EmptySlide
    /\ slides = << >>
    /\ slide_contents = << >>
    /\ presentation = NoPresentation
    /\ response = NoResponse
    /\ text_calls = 0
    /\ image_calls = NoImageCalls
    /\ image_faults = 0
    /\ image_responses = NoImageResponses

Next ==
    \/ Validate
    \/ CallTextGeneration
    \/ ScanLine
    \/ ParseReturn
    \/ Assemble
    \/ AddSlide
    \/ Respond

Spec == Init /\ [][Next]_vars

(***************************************************************************)
(* create_canva_style_powerpoint: what the export reads again from the     *)
(* content of one slide of a presentation.                                 *)
(***************************************************************************)
\* "<bullet> Additional comprehensive guidance for complete practice"
ExportFillerBullet == Cat(Bullet, Cat(Space, Cat(Rep("A", 1), Rep("x", 54))))

\* the test of the if: a line that is not blank and carries a subheading marker
ExportIsSubheading(line) ==
    /\ Strip(line) # << >>
    /\ \/ Contains(line, SubheadingToken)
       \/ \E e \in 1..Len(SubheadingEmoji) : Contains(line, SubheadingEmoji[e])

\* the test of the elif: a line that is not blank and begins with a marker
ExportIsBullet(line) ==
    /\ ~ExportIsSubheading(line)
    /\ Strip(line) # << >>
    /\ (HasPrefix(line, Bullet) \/ HasPrefix(line, Hyphen))

\* title, subheading and bullet_points as they stand after the while loop;
\* found counts the bullets read from the content itself
ExportReparse(slide_content) ==
    LET content_lines == SplitNL(slide_content)
        below == Tail(content_lines)
        subs == SelectSeq(below, ExportIsSubheading)
        found == SelectSeq(below, ExportIsBullet)
    IN  [title |-> content_lines[1],
         subheading |-> IF Len(subs) = 0 THEN << >> ELSE subs[Len(subs)],
         bullet_points |->
             found \o [j \in 1..(MinBullets - Len(found)) |-> ExportFillerBullet],
         found |-> Len(found)]

(***************************************************************************)
(* What the claims speak of, stated on the raw text alone: the detected    *)
(* titles, the lines that follow each, and the slide they make.            *)
(***************************************************************************)
\* the lines of a raw text, each stripped
StrippedLines(text) ==
    LET ls == SplitNL(text) IN [j \in 1..Len(ls) |-> Strip(ls[j])]

\* a line begins with SLIDE as written, or is upper case and longer than 10
TitleTrigger(line) ==
    HasPrefix(line, SlideToken) \/ (IsUpperText(line) /\ TLen(line) > 10)

\* the positions of the title lines of sl, and the i-th of them
TitlePositions(sl) == { j \in 1..Len(sl) : TitleTrigger(sl[j]) }
NthTitle(sl, i) ==
    CHOOSE j \in TitlePositions(sl) :
        Cardinality({ j2 \in TitlePositions(sl) : j2 <= j }) = i

\* the lines after the i-th title, up to the next title or the end
SegmentAfter(sl, i) ==
    LET k == Cardinality(TitlePositions(sl))
        from == NthTitle(sl, i) + 1
        to == IF i < k THEN NthTitle(sl, i + 1) - 1 ELSE Len(sl)
    IN  SubSeq(sl, from, to)

HasSubheadingMarker(line) ==
    \/ Contains(line, SubheadingToken)
    \/ \E e \in 1..Len(SubheadingEmoji) : Contains(line, SubheadingEmoji[e])
HasBulletMarker(line) == HasPrefix(line, Bullet) \/ HasPrefix(line, Hyphen)
IsCollectedBullet(line) == ~HasSubheadingMarker(line) /\ HasBulletMarker(line)

\* the i-th detected slide: its title, the last subheading line after it, and
\* the bullet lines after it, in order
DetectedSlide(sl, i) ==
    LET seg == SegmentAfter(sl, i)
        subs == SelectSeq(seg, HasSubheadingMarker)
    IN  [title |-> sl[NthTitle(sl, i)],
         subheading |-> IF Len(subs) = 0 THEN << >> ELSE subs[Len(subs)],
         content |-> SelectSeq(seg, IsCollectedBullet)]

\* title, subheading and the 5 to 6 bullets of a detected slide, joined
JoinedText(slide) ==
    LET n == Len(slide.content)
        bullets == IF n >= 6 THEN SubSeq(slide.content, 1, 6)
                   ELSE slide.content \o [j \in 1..(5 - n) |-> FillerBullet]
    IN  JoinNL(<< slide.title, slide.subheading >> \o bullets)

DetectedCount == Cardinality(TitlePositions(StrippedLines(content)))

\* the bullet lines of a slide body: the lines below title and subheading that
\* begin with a bullet marker
BulletLinesOf(body) ==
    LET ls == SplitNL(body)
    IN  Cardinality({ j \in 3..Len(ls) : HasBulletMarker(ls[j]) })

Returned == pc = "assemble"

(***************************************************************************)
(* C1.  The normalizer returns exactly 13 slide bodies, whatever the       *)
(* number of title lines of the raw text.                                  *)
(***************************************************************************)
C1_ExactlyThirteen == Returned => Len(slide_contents) = 13

\* more than 13 titled slides were finalized, and the result was returned
C1_Witness == Returned /\ DetectedCount > 13 /\ Len(slide_contents) = 13

(***************************************************************************)
(* C2.  Every slide body the normalizer returns holds at least 5 and at    *)
(* most 6 bullet lines.  (Violated: truncation to the character budget     *)
(* drops bullet lines after the 5-to-6 rule was applied.)                  *)
(***************************************************************************)
C2_FiveToSixBullets ==
    Returned =>
        \A i \in 1..Len(slide_contents) :
            /\ BulletLinesOf(slide_contents[i]) >= 5
            /\ BulletLinesOf(slide_contents[i]) <= 6

(***************************************************************************)
(* C3.  Every slide body the normalizer returns is at most 500 code points *)
(* long, padding from the fallback bank included.  (Violated: the padding  *)
(* is appended without truncation, and its first title carries the subject *)
(* name.)                                                                  *)
(***************************************************************************)
C3_WithinBudget ==
    Returned => \A i \in 1..Len(slide_contents) : TLen(slide_contents[i]) <= 500

(***************************************************************************)
(* C4.  With k detected titles, position i of the result is the finalized  *)
(* i-th detected slide for i <= k and entry i of the fallback bank for     *)
(* i > k (positions counted from 1 to 13).                                 *)
(***************************************************************************)
C4_PositionalOutput ==
    Returned =>
        LET sl == StrippedLines(content)
            k == Cardinality(TitlePositions(sl))
        IN  \A i \in 1..13 :
                /\ i <= Len(slide_contents)
                /\ slide_contents[i] =
                      IF i <= k THEN format_slide_content(DetectedSlide(sl, i))
                      ELSE get_enhanced_fallback_content(asanas_name)[i]

\* five slides from the input, eight from the bank
C4_Witness ==
    /\ Returned
    /\ DetectedCount = 5
    /\ slide_contents[5] # get_enhanced_fallback_content(asanas_name)[5]
    /\ slide_contents[6] = get_enhanced_fallback_content(asanas_name)[6]

(***************************************************************************)
(* C5.  A stripped line starts a new slide if and only if it begins with   *)
(* SLIDE matched without regard to case, or is upper case and longer than  *)
(* 10.  (Violated: "Slide 2" and "slide 3" start no slide; the prefix is   *)
(* matched as written.)  As amended: if and only if it begins with SLIDE   *)
(* in exactly this upper-case spelling, or is upper case and longer than   *)
(* 10.                                                                     *)
(***************************************************************************)
\* the scan step taken from this state starts a new slide with the line
StartsNewSlide(line) ==
    /\ line # << >>
    /\ current_slide' = [title |-> line, subheading |-> << >>, content |-> << >>]

C5_AnyCaseTrigger ==
    [][(pc = "scan" /\ lines # << >>) =>
          LET line == Strip(Head(lines))
          IN  StartsNewSlide(line) <=>
                  \/ HasPrefix(Upper(line), SlideToken)
                  \/ (IsUpperText(line) /\ TLen(line) > 10)]_vars

C5_ExactCaseTrigger ==
    [][(pc = "scan" /\ lines # << >>) =>
          LET line == Strip(Head(lines))
          IN  StartsNewSlide(line) <=>
                  \/ HasPrefix(line, SlideToken)
                  \/ (IsUpperText(line) /\ TLen(line) > 10)]_vars

\* "Slide 2" was scanned and started nothing; the "SLIDE ..." line after it
\* started the first slide
C5_Witness ==
    LET sl == StrippedLines(content)
    IN  /\ pc = "scan"
        /\ Len(sl) >= 2
        /\ Len(lines) + 2 = Len(sl)
        /\ HasPrefix(Upper(sl[1]), SlideToken)
        /\ ~HasPrefix(sl[1], SlideToken)
        /\ HasPrefix(sl[2], SlideToken)
        /\ current_slide.title = sl[2]
        /\ slides = << >>

(***************************************************************************)
(* C6.  Whenever the text-generation call fails (it raises, the status is  *)
(* not 200, or the body of a 200 lacks choices/message/content as a text)  *)
(* the content provider returns the 13 entries of the fallback bank for    *)
(* the subject, in order; when it succeeds it returns the normalizer's     *)
(* output for the returned text.                                           *)
(***************************************************************************)
CallFailed(r) ==
    \/ r.raised
    \/ r.status_code # 200
    \/ ~r.json_ok
    \/ ~r.has_choices
    \/ ~r.content_is_str

\* the normalizer's output, stated on the raw text
NormalizerOutput(text, name) ==
    LET sl == StrippedLines(text)
        k == Cardinality(TitlePositions(sl))
    IN  [i \in 1..13 |->
            IF i <= k THEN format_slide_content(DetectedSlide(sl, i))
            ELSE get_enhanced_fallback_content(name)[i]]

C6_ProviderResult ==
    (Returned /\ text_response.issued) =>
        IF CallFailed(text_response)
        THEN slide_contents = get_enhanced_fallback_content(asanas_name)
        ELSE slide_contents = NormalizerOutput(text_response.content, asanas_name)

\* a 200 whose body lacks the content was answered from the bank
C6_Witness ==
    /\ Returned
    /\ text_response.issued
    /\ text_response.status_code = 200
    /\ ~text_response.has_choices
    /\ Len(slide_contents) = 13

(***************************************************************************)
(* C7.  A request whose asanas list is empty or absent is answered 400     *)
(* with status "error", and no text-generation call and no image-lookup    *)
(* call is issued for it.                                                  *)
(***************************************************************************)
NoSelection == ~request.has_asanas \/ request.asanas = << >>

C7_EmptySelectionRefused ==
    NoSelection =>
        /\ text_calls = 0
        /\ \A i \in DOMAIN image_calls : image_calls[i] = 0
        /\ pc \in {"validate", "done"}
        /\ pc = "done" => (response.code = 400 /\ response.status = "error")

\* an empty list was refused
C7_Witness ==
    /\ pc = "done"
    /\ request.has_asanas
    /\ request.asanas = << >>
    /\ response.code = 400

(***************************************************************************)
(* C8.  A request with a non-empty asanas list is answered 200 with status *)
(* "success", 13 slides and asanas holding the first submitted pose alone, *)
(* whatever the text-generation call and the image lookups came back with. *)
(***************************************************************************)
C8_AlwaysThirteenSlides ==
    (pc = "done" /\ ~NoSelection) =>
        /\ response.code = 200
        /\ response.status = "success"
        /\ Len(response.slides) = 13
        /\ response.asanas = << request.asanas[1] >>

\* the text call failed and an image lookup raised, and the answer is a 200
C8_Witness ==
    /\ pc = "done"
    /\ Len(request.asanas) = 2
    /\ CallFailed(text_response)
    /\ \E i \in 1..Len(response.slides) : response.slides[i].image.source = "none"
    /\ request.include_images # "false"
    /\ response.code = 200

(***************************************************************************)
(* C9.  A request that passes validation issues exactly one text-          *)
(* generation call, never a second one; it issues no image lookup when     *)
(* include_images is false and otherwise at most one per slide index       *)
(* 0..12, at most 13 in all, a failed lookup included.                     *)
(***************************************************************************)
RECURSIVE SumCalls(_, _)
SumCalls(calls, i) == IF i < 0 THEN 0 ELSE calls[i] + SumCalls(calls, i - 1)
ImageCallsIssued == SumCalls(image_calls, 12)

C9_CallBudget ==
    ~NoSelection =>
        /\ text_calls <= 1
        /\ pc \in {"scan", "assemble", "slides", "done"} => text_calls = 1
        /\ request.include_images = "false" => ImageCallsIssued = 0
        /\ DOMAIN image_calls = 0..12
        /\ \A i \in 0..12 : image_calls[i] <= 1
        /\ ImageCallsIssued <= 13

\* 13 lookups were issued, one of them failed, and the text call had failed
C9_Witness ==
    /\ pc = "done"
    /\ CallFailed(text_response)
    /\ text_calls = 1
    /\ ImageCallsIssued = 13
    /\ image_faults >= 1

(***************************************************************************)
(* C10.  Whenever the joined text of a slide exceeds 500 code points, the  *)
(* finalized text is the first m lines of the joined text, each whole.     *)
(* (Violated: a title of 500 or more is cut to 497 code points and "..."   *)
(* is added.)  As amended: this holds whenever the first line, the title,  *)
(* is shorter than 500; with a title of 500 or more the finalized text is  *)
(* the first 497 code points of the joined text followed by "...".         *)
(***************************************************************************)
\* text is the first m lines of joined, for some m >= low
IsWholeLinePrefix(text, joined, low) ==
    LET ls == SplitNL(joined)
    IN  \E m \in low..Len(ls) : text = JoinNL(SubSeq(ls, 1, m))

C10_WholeLinesOnly ==
    Returned =>
        LET sl == StrippedLines(content)
        IN  \A i \in 1..Cardinality(TitlePositions(sl)) :
                LET joined == JoinedText(DetectedSlide(sl, i))
                IN  TLen(joined) > 500 => IsWholeLinePrefix(slides[i], joined, 0)

C10_WholeLinesUnlessLongTitle ==
    Returned =>
        LET sl == StrippedLines(content)
        IN  \A i \in 1..Cardinality(TitlePositions(sl)) :
                LET slide == DetectedSlide(sl, i)
                    joined == JoinedText(slide)
                IN  TLen(joined) > 500 =>
                        IF TLen(slide.title) < 500
                        THEN IsWholeLinePrefix(slides[i], joined, 1)
                        ELSE slides[i] = Cat(Take(joined, 497), Rep(".", 3))

\* a slide over the budget lost its last bullets and kept its first ones
C10_Witness ==
    /\ Returned
    /\ DetectedCount >= 1
    /\ LET sl == StrippedLines(content)
           joined == JoinedText(DetectedSlide(sl, DetectedCount))
       IN  /\ TLen(joined) > 500
           /\ Len(SplitNL(slides[DetectedCount])) >= 4
           /\ Len(SplitNL(slides[DetectedCount])) < Len(SplitNL(joined))

(***************************************************************************)
(* C11.  For a slide finalized from the input whose joined text is at most *)
(* 500 code points, with n bullet lines collected: its bullet lines are    *)
(* the first min(n, 6) collected lines, as they were and in input order,   *)
(* followed by 5 - n copies of the filler bullet when n < 5 and by nothing *)
(* otherwise.                                                              *)
(***************************************************************************)
\* the lines of a slide body below its title and its subheading
BodyBullets(body) ==
    LET ls == SplitNL(body) IN SubSeq(ls, 3, Len(ls))

\* the first min(n, 6) collected lines, then fillers up to 5
ExpectedBullets(collected) ==
    LET n == Len(collected)
    IN  SubSeq(collected, 1, IF n < 6 THEN n ELSE 6)
        \o [j \in 1..(5 - n) |-> FillerBullet]

C11_BulletsVerbatim ==
    Returned =>
        LET sl == StrippedLines(content)
        IN  \A i \in 1..Cardinality(TitlePositions(sl)) :
                LET slide == DetectedSlide(sl, i)
                IN  TLen(JoinedText(slide)) <= 500 =>
                        BodyBullets(slides[i]) = ExpectedBullets(slide.content)

\* a slide that collected 7 bullets shows its first 6, and a slide that
\* collected 1 shows it followed by 4 fillers
C11_Witness ==
    /\ Returned
    /\ DetectedCount >= 7
    /\ LET sl == StrippedLines(content)
           one == DetectedSlide(sl, 1)
           seven == DetectedSlide(sl, 7)
       IN  /\ Len(seven.content) = 7
           /\ TLen(JoinedText(seven)) <= 500
           /\ BodyBullets(slides[7]) = SubSeq(seven.content, 1, 6)
           /\ Len(one.content) = 1
           /\ BodyBullets(slides[1]) = one.content \o [j \in 1..4 |-> FillerBullet]

(***************************************************************************)
(* C12.  For every subject name the fallback bank returns exactly 13 slide *)
(* bodies, each made of a title line, then a subheading line that carries  *)
(* a marker the normalizer recognizes, then exactly 6 lines that begin     *)
(* with the bullet.  (Violated: the name is put into the first title as it *)
(* was submitted, so a name that holds a line break splits that title in   *)
(* two lines, and the second line of the body carries no marker.)          *)
(***************************************************************************)
\* one body of the bank: title, marked subheading, 6 bullets
IsBankBody(body) ==
    LET ls == SplitNL(body)
    IN  /\ Len(ls) = 8
        /\ ls[1] # << >>
        /\ HasSubheadingMarker(ls[2])
        /\ \A j \in 3..8 : HasPrefix(ls[j], Bullet)

C12_BankShape ==
    Returned =>
        LET bank == get_enhanced_fallback_content(asanas_name)
        IN  /\ Len(bank) = 13
            /\ \A i \in 1..13 : IsBankBody(bank[i])

(***************************************************************************)
(* C13.  The fallback bank is a function of the subject name alone, and    *)
(* the banks of two subjects differ only where the name is written, which  *)
(* is in the title and in some of the bullets.  (Violated: no bullet       *)
(* carries the name.)  As amended: the banks of two subjects differ only   *)
(* in the title line of the first entry, which is "MASTERING " followed by *)
(* the name in upper case; entries 2 to 13, and every subheading and every *)
(* bullet of entry 1, are the same for every subject.                      *)
(***************************************************************************)
SubjectNames == {ShortName, SecondName, LongName, BrokenName}

\* the bank entries this run returned are those of the subject's bank
BankOfSubject ==
    \A i \in 1..13 :
        i > DetectedCount =>
            slide_contents[i] = get_enhanced_fallback_content(asanas_name)[i]

\* what follows the title in the first entry (read off a one-line name)
FirstEntryRest ==
    JoinNL(Tail(SplitNL(get_enhanced_fallback_content(ShortName)[1])))

\* the two banks differ at most where the name is written in the first title
DifferInFirstTitleOnly(a, b, name_a, name_b) ==
    /\ \A i \in 2..13 : a[i] = b[i]
    /\ a[1] = Cat(Cat(Cat(MasteringPrefix, Upper(name_a)), Rep(NL, 1)), FirstEntryRest)
    /\ b[1] = Cat(Cat(Cat(MasteringPrefix, Upper(name_b)), Rep(NL, 1)), FirstEntryRest)

\* some bullet line of the bank names the subject
NameInSomeBullet(bank, name) ==
    \E i \in 1..13 :
        LET ls == SplitNL(bank[i])
        IN  \E j \in 2..Len(ls) :
                /\ HasPrefix(ls[j], Bullet)
                /\ (Contains(ls[j], name) \/ Contains(ls[j], Upper(name)))

\* below the title, a line that differs between the two banks is a bullet
DifferInTitleAndBulletsOnly(a, b) ==
    \A i \in 1..13 :
        LET la == SplitNL(a[i])
            lb == SplitNL(b[i])
        IN  Len(la) = Len(lb) =>
                \A j \in 2..Len(la) : la[j] # lb[j] => HasPrefix(la[j], Bullet)

C13_TitleAndBullets ==
    Returned =>
        LET bank == get_enhanced_fallback_content(asanas_name)
        IN  /\ BankOfSubject
            /\ NameInSomeBullet(bank, asanas_name)
            /\ \A other \in SubjectNames :
                   DifferInTitleAndBulletsOnly(bank, get_enhanced_fallback_content(other))

C13_FirstTitleOnly ==
    Returned =>
        LET bank == get_enhanced_fallback_content(asanas_name)
        IN  /\ BankOfSubject
            /\ \A other \in SubjectNames :
                   DifferInFirstTitleOnly(bank, get_enhanced_fallback_content(other),
                                          asanas_name, other)

\* the whole answer came from the bank of a long name: its first entry differs
\* from that of another subject, its second does not
C13_Witness ==
    /\ Returned
    /\ DetectedCount = 0
    /\ asanas_name = LongName
    /\ slide_contents[1] # get_enhanced_fallback_content(ShortName)[1]
    /\ slide_contents[2] = get_enhanced_fallback_content(ShortName)[2]
    /\ Len(slide_contents) = 13

(***************************************************************************)
(* C14.  Title detection comes first in the scan: a line that matches the  *)
(* title trigger finalizes the slide under construction when that slide    *)
(* has a title, and starts a new slide whose subheading and bullets are    *)
(* empty, also when the line carries a subheading marker or begins with a  *)
(* bullet marker; the line is recorded as the title alone.                 *)
(***************************************************************************)
C14_TitlePriority ==
    [][(pc = "scan" /\ lines # << >> /\ TitleTrigger(Strip(Head(lines)))) =>
          LET line == Strip(Head(lines))
          IN  /\ current_slide' =
                    [title |-> line, subheading |-> << >>, content |-> << >>]
              /\ slides' = IF current_slide.title # << >>
                           THEN Append(slides, format_slide_content(current_slide))
                           ELSE slides]_vars

\* an upper-case line that begins with a hyphen closed the first slide and
\* became the title of the second
C14_Witness ==
    /\ pc = "scan"
    /\ Len(slides) = 1
    /\ HasBulletMarker(current_slide.title)
    /\ TitleTrigger(current_slide.title)
    /\ current_slide.subheading = << >>
    /\ current_slide.content = << >>

(***************************************************************************)
(* C15.  Round trip between generation and export: from every slide body   *)
(* the content provider returns, the export reads again the title, the     *)
(* subheading and the ordered bullets the body was assembled from, and     *)
(* adds no filler of its own.  (Violated: a body that truncation left with *)
(* fewer than 5 bullets, or without its subheading, is read back with      *)
(* other bullets, and the export fills it up to 5 with its own filler.)    *)
(***************************************************************************)
\* the export reads slide back from body, and all the bullets it shows were
\* read from body
ReadsBack(body, slide) ==
    LET parsed == ExportReparse(body)
    IN  /\ parsed.title = slide.title
        /\ parsed.subheading = slide.subheading
        /\ parsed.bullet_points = slide.content
        /\ parsed.found = Len(parsed.bullet_points)

\* entry i of the bank, as the parts it is written from
BankSlide(i, name) ==
    LET ls == SplitNL(get_enhanced_fallback_content(name)[i])
    IN  [title |-> IF i = 1 THEN Cat(MasteringPrefix, Upper(name)) ELSE ls[1],
         subheading |-> ls[Len(ls) - 6],
         content |-> SubSeq(ls, Len(ls) - 5, Len(ls))]

C15_ExportRoundTrip ==
    Returned =>
        LET sl == StrippedLines(content)
            k == Cardinality(TitlePositions(sl))
        IN  \A i \in 1..13 :
                IF i <= k
                THEN LET slide == DetectedSlide(sl, i)
                     IN  ReadsBack(slide_contents[i],
                                   [slide EXCEPT !.content = ExpectedBullets(@)])
                ELSE ReadsBack(slide_contents[i], BankSlide(i, asanas_name))

(***************************************************************************)
(* C16.  With images requested, a lookup for slide index i that failed     *)
(* (it raised, it timed out, or it came back with a status other than 200) *)
(* leaves slide i without an image and touches nothing else: every other   *)
(* slide has the image of its own lookup, every slide has its own body,    *)
(* and the request is answered 200 with 13 slides.  (Violated: a status    *)
(* other than 200 gives slide i the curated image of index i.)  As         *)
(* amended: a lookup that raised or timed out leaves slide i without an    *)
(* image, and a lookup that came back with a status other than 200, or     *)
(* with no result, gives slide i the curated image of index i; the rest    *)
(* as above.  Each slide's image is a function of its index and of its own *)
(* lookup alone, so the order of the lookups does not show in the result.  *)
(***************************************************************************)
\* the slides built so far carry their own bodies, and the image that
\* image_of gives for their index and their own lookup
SlidesAreLocal(image_of(_, _)) ==
    \A j \in 1..Len(presentation.slides) :
        /\ presentation.slides[j].content = slide_contents[j]
        /\ presentation.slides[j].image =
              IF IncludeImages(request) THEN image_of(j - 1, image_responses[j - 1])
              ELSE [source |-> "none", index |-> 0]

\* the request was not aborted
AnsweredInFull ==
    (pc = "done" /\ ~NoSelection) =>
        /\ response.code = 200
        /\ Len(response.slides) = 13
        /\ response.slides = presentation.slides

ImageIfFailureIsNull(i, resp) ==
    IF resp = "photo" THEN [source |-> "unsplash", index |-> i % 15]
    ELSE IF resp \in {"raises", "http_error"} THEN [source |-> "none", index |-> 0]
    ELSE [source |-> "curated", index |-> i % 13]

ImageIfRaiseIsNull(i, resp) ==
    IF resp = "photo" THEN [source |-> "unsplash", index |-> i % 15]
    ELSE IF resp = "raises" THEN [source |-> "none", index |-> 0]
    ELSE [source |-> "curated", index |-> i % 13]

C16_FailedLookupIsNull ==
    (pc \in {"slides", "done"}) =>
        /\ SlidesAreLocal(ImageIfFailureIsNull)
        /\ AnsweredInFull

C16_RaisedLookupIsNull ==
    (pc \in {"slides", "done"}) =>
        /\ SlidesAreLocal(ImageIfRaiseIsNull)
        /\ AnsweredInFull

\* the lookup of slide index 5 came back with a status other than 200: slide 5
\* has its curated image, its neighbours have their photos, the answer is a 200
C16_Witness ==
    /\ pc = "done"
    /\ response.code = 200
    /\ IncludeImages(request)
    /\ image_responses[5] = "http_error"
    /\ response.slides[6].image = [source |-> "curated", index |-> 5]
    /\ response.slides[5].image.source = "unsplash"
    /\ response.slides[7].image.source = "unsplash"
    /\ response.slides[6].content = slide_contents[6]

(***************************************************************************)
(* C17.  Subheading and bullet lines that stand before the first detected  *)
(* title appear in no slide of the result: the result is what the          *)
(* normalizer returns for the text without those lines, and the first      *)
(* titled slide is made of the lines after its title alone.                *)
(***************************************************************************)
\* the stripped lines before the first title, and the text from it on
LinesBeforeFirstTitle(sl) ==
    IF TitlePositions(sl) = {} THEN sl ELSE SubSeq(sl, 1, NthTitle(sl, 1) - 1)
TextFromFirstTitle(sl) ==
    IF TitlePositions(sl) = {} THEN << >>
    ELSE JoinNL(SubSeq(sl, NthTitle(sl, 1), Len(sl)))

C17_UntitledLinesDiscarded ==
    Returned =>
        LET sl == StrippedLines(content)
        IN  /\ slide_contents = NormalizerOutput(TextFromFirstTitle(sl), asanas_name)
            /\ TitlePositions(sl) # {} =>
                   slide_contents[1] =
                       format_slide_content(DetectedSlide(sl, 1))

\* a bullet and a subheading stood before the only title: the slide of that
\* title shows 5 fillers and no subheading
C17_Witness ==
    /\ Returned
    /\ DetectedCount = 1
    /\ LET sl == StrippedLines(content)
           before == LinesBeforeFirstTitle(sl)
       IN  /\ \E j \in 1..Len(before) : IsCollectedBullet(before[j])
           /\ \E j \in 1..Len(before) : HasSubheadingMarker(before[j])
           /\ NthTitle(sl, 1) = Len(sl)
           /\ slide_contents[1] =
                  JoinNL(<< sl[Len(sl)], << >> >> \o [j \in 1..5 |-> FillerBullet])

(***************************************************************************)
(* C18.  When truncation applies to a joined text whose first line is      *)
(* shorter than 500, the result is the longest prefix of whole lines whose *)
(* joined length is at most 500: a line that brings the joined length to   *)
(* 500 exactly is kept.  (Violated: such a line is dropped.)  As amended:  *)
(* the result is the longest prefix of whole lines whose joined length is  *)
(* at most 499, that is, strictly below 500.                               *)
(***************************************************************************)
\* the first m lines of joined, m the largest with a joined length <= limit
LongestLinePrefix(joined, limit) ==
    LET ls == SplitNL(joined)
        fits == { m \in 0..Len(ls) : TLen(JoinNL(SubSeq(ls, 1, m))) <= limit }
        most == CHOOSE m \in fits : \A m2 \in fits : m2 <= m
    IN  JoinNL(SubSeq(ls, 1, most))

C18_LongestPrefixAtMost500 ==
    Returned =>
        LET sl == StrippedLines(content)
        IN  \A i \in 1..Cardinality(TitlePositions(sl)) :
                LET slide == DetectedSlide(sl, i)
                    joined == JoinedText(slide)
                IN  (TLen(joined) > 500 /\ TLen(slide.title) < 500) =>
                        slides[i] = LongestLinePrefix(joined, 500)

C18_LongestPrefixBelow500 ==
    Returned =>
        LET sl == StrippedLines(content)
        IN  \A i \in 1..Cardinality(TitlePositions(sl)) :
                LET slide == DetectedSlide(sl, i)
                    joined == JoinedText(slide)
                IN  (TLen(joined) > 500 /\ TLen(slide.title) < 500) =>
                        slides[i] = LongestLinePrefix(joined, 499)

\* title, subheading and first bullet are 500 long together: the bullet was
\* dropped, and the body is what stands above it
C18_Witness ==
    /\ Returned
    /\ DetectedCount = 1
    /\ LET sl == StrippedLines(content)
           ls == SplitNL(JoinedText(DetectedSlide(sl, 1)))
       IN  /\ TLen(ls[1]) < 500
           /\ HasPrefix(ls[3], Bullet)
           /\ TLen(JoinNL(SubSeq(ls, 1, 3))) = 500
           /\ slides[1] = JoinNL(SubSeq(ls, 1, 2))

====
